---- MODULE Spec2Model ----
(***************************************************************************)
(* AlphavantageClient (client.py) and its pydantic result models           *)
(* (models.py) as a state machine.                                         *)
(*                                                                         *)
(* A Python dict of request parameters is a function over ParamKeys whose  *)
(* value Absent means "key not in the dict".  A dict whose iteration order *)
(* matters (the provider's JSON object, requested_data) is a sequence of   *)
(* <<key, value>> pairs with distinct keys, in insertion order.  All dict  *)
(* values are strings: True/False are "True"/"False", None is None.        *)
(***************************************************************************)
EXTENDS Integers, Sequences, FiniteSets, TLC

VARIABLES
    os_env,            \* [file, env]: ~/.alphavantage key and ALPHAVANTAGE_API_KEY at construction
    api_key,           \* self.__api_key__
    event,             \* the dict object the caller holds and passes to the client
    real_gdp_default,  \* the shared default argument object of get_real_gdp (event: dict={})
    pc,                \* "idle" | "sent" | "returned" | "raised": position of the current call
    method,            \* name of the client method the caller invoked
    arg,               \* value of the caller's dict at the moment of the call
    json_request,      \* the dict handed to get_data_from_alpha_vantage (after its mutation)
    url,               \* the url built by __build_url_from_args__, NoUrl before
    sent,              \* urls passed to requests.get during the current call, in order
    response,          \* r, the provider's response
    requested_data,    \* the dict get_data_from_alpha_vantage returns
    normalized,        \* the dict the root validator normalize_fields returns
    typed,             \* the pydantic object parse_obj returns
    exception,         \* "none" or the name of the exception the call raised
    key_arg,           \* the argument of the with_api_key call under way, NoKey otherwise
    accepted,          \* the argument of the latest with_api_key call that did not raise
    returns            \* what the accessors called on the object `typed` returned, in order

vars == <<os_env, api_key, event, real_gdp_default, pc, method, arg, json_request,
          url, sent, response, requested_data, normalized, typed, exception,
          key_arg, accepted, returns>>

----------------------------------------------------------------------------
(* Bounds *)

\* largest number of top-level fields in a provider JSON object (client runs)
MaxFields == 1
\* largest number of top-level keys of a dict handed to parse_obj (decoder runs)
MaxKeys == 2
\* largest number of entries of `data`, and of reports of a report list (accessor runs)
MaxEntries == 2
\* largest number of accessor calls on one object (accessor runs)
MaxCalls == 2

----------------------------------------------------------------------------
(* Python values and dicts *)

Absent == "<absent>"
None == "<None>"

ParamKeys == {"apikey", "datatype", "symbol", "function", "interval", "slice",
              "outputsize", "market"}

EmptyDict == [k \in ParamKeys |-> Absent]

\* key in d
Has(d, k) == d[k] # Absent

\* d.get(k)
Get(d, k) == IF Has(d, k) THEN d[k] ELSE None

\* truthiness of a str-or-None value
Truthy(v) == v # None /\ v # ""

\* {k1: v1, ...} over ParamKeys from a set of <<key, value>> pairs
MkDict(pairs) ==
    [k \in ParamKeys |->
        IF \E p \in pairs : p[1] = k THEN (CHOOSE p \in pairs : p[1] = k)[2] ELSE Absent]

\* ordered dicts: sequences of <<key, value>>
DictHas(d, k) == \E i \in 1..Len(d) : d[i][1] = k

DictGet(d, k) == d[CHOOSE i \in 1..Len(d) : d[i][1] = k][2]

\* d[k] = v : overwrite in place, or append
DictSet(d, k, v) ==
    IF DictHas(d, k)
    THEN [i \in 1..Len(d) |-> IF d[i][1] = k THEN <<k, v>> ELSE d[i]]
    ELSE Append(d, <<k, v>>)

\* d.pop(k) for a key that is present
DictPop(d, k) == SelectSeq(d, LAMBDA p : p[1] # k)

DictKeys(d) == {d[i][1] : i \in 1..Len(d)}

PyBool(b) == IF b THEN "True" ELSE "False"

\* str.startswith, on the keys the provider uses
StartsWith(k, prefix) ==
    /\ Len(k) >= Len(prefix)
    /\ SubSeq(k, 1, Len(prefix)) = prefix

----------------------------------------------------------------------------
(* The provider's responses *)

\* the text of the provider's rate-limit Note
LimitNote == "Thank you for using Alpha Vantage! Our standard API call frequency is ..."

\* what get_obj() hands back for a decoded JSON object, as a dict value
JsonObject == "<json object>"

NoResponse == [status_code |-> "0", kind |-> "none", fields |-> <<>>, text |-> ""]

\* top-level fields a provider JSON object may carry in the client runs
ProviderFields ==
    { <<"Global Quote", "v1">>, <<"Time Series (5min)", "v1">>, <<"annualEarnings", "e1">>,
      <<"Symbol", "IBM">>, <<"symbol", "IBM">>,
      <<"Note", LimitNote>>, <<"Error Message", "Invalid API call.">> }

RECURSIVE OrderedDicts(_, _)
\* every ordered dict of at most n pairs of the set `pairs`, keys distinct
OrderedDicts(pairs, n) ==
    IF n = 0 THEN { <<>> }
    ELSE LET shorter == OrderedDicts(pairs, n - 1)
         IN  shorter \cup
             { Append(d, p) : <<d, p>> \in
                 { x \in shorter \X pairs : Len(x[1]) = n - 1 /\ ~DictHas(x[1], x[2][1]) } }

StatusCodes == {"200", "500"}

\* bodies: a JSON object, tabular csv text, or text that is neither
Responses ==
    { [status_code |-> s, kind |-> "json", fields |-> f, text |-> "{...}"] :
        s \in StatusCodes, f \in OrderedDicts(ProviderFields, MaxFields) }
    \cup { [status_code |-> s, kind |-> "csv", fields |-> <<>>, text |-> "a,b\n1,2"] :
        s \in StatusCodes }
    \cup { [status_code |-> s, kind |-> "text", fields |-> <<>>, text |-> t] :
        s \in StatusCodes, t \in {"", "<html>"} }

----------------------------------------------------------------------------
(* ValidationRuleChecks (response_validation_rules.py): the fluent chain.  *)
(* Every expect_* check overwrites last_check_passed.                      *)

ValidationRuleChecks ==
    [customer_request |-> EmptyDict, response |-> NoResponse, last_check_passed |-> TRUE]

from_customer_request(checks, ev) == [checks EXCEPT !.customer_request = ev]

with_response(checks, r) == [checks EXCEPT !.response = r]

passed(checks) == checks.last_check_passed

failed(checks) == ~checks.last_check_passed

\* the request asks for csv; any other request is decoded as JSON
is_csv_request(checks) == Get(checks.customer_request, "datatype") = "csv"

expect_api_key_in_event(checks) ==
    [checks EXCEPT !.last_check_passed =
        Has(checks.customer_request, "apikey") /\ Truthy(checks.customer_request["apikey"])]

has_error_marker(checks) ==
    IF is_csv_request(checks)
    THEN checks.response.kind # "csv"
    ELSE checks.response.kind # "json" \/ DictHas(checks.response.fields, "Error Message")

expect_successful_response(checks) ==
    [checks EXCEPT !.last_check_passed =
        checks.response.status_code = "200" /\ ~has_error_marker(checks)]

has_limit_marker(checks) ==
    /\ checks.response.kind = "json"
    /\ DictHas(checks.response.fields, "Note")
    /\ DictGet(checks.response.fields, "Note") = LimitNote

expect_limit_not_reached(checks) ==
    [checks EXCEPT !.last_check_passed = ~has_limit_marker(checks)]

expect_json_datatype(checks) ==
    [checks EXCEPT !.last_check_passed = Get(checks.customer_request, "datatype") = "json"]

expect_csv_datatype(checks) ==
    [checks EXCEPT !.last_check_passed = Get(checks.customer_request, "datatype") = "csv"]

get_error_message(checks) ==
    IF checks.response.kind = "json" /\ DictHas(checks.response.fields, "Error Message")
    THEN DictGet(checks.response.fields, "Error Message")
    ELSE "Failed to retrieve data from alphavantage"

get_status_code(checks) == checks.response.status_code

\* [is_text, text, fields]: the raw text for a csv request, else the decoded JSON object
get_obj(checks) ==
    [is_text |-> is_csv_request(checks),
     text    |-> checks.response.text,
     fields  |-> checks.response.fields]

----------------------------------------------------------------------------
(* AlphavantageClient (client.py) *)

NoUrl == "<no url>"

\* no with_api_key argument
NoKey == "<no key>"

\* __init__ looking at ALPHAVANTAGE_API_KEY before ~/.alphavantage
init_api_key_env_first(file, env) ==
    IF env # None THEN env
    ELSE IF file # None THEN file
    ELSE ""

\* __init__: ~/.alphavantage first, then ALPHAVANTAGE_API_KEY, then ""
init_api_key(file, env) ==
    IF file # None THEN file
    ELSE IF env # None THEN env
    ELSE ""

\* __build_url_from_args__: the url is determined by the key=value pairs it carries
build_url_from_args(ev) == [base |-> "https://www.alphavantage.co/query?", query |-> ev]

\* __inject_values__: a default fills a key that is missing or None
inject_values(default_values, dest_obj) ==
    [k \in ParamKeys |->
        IF Has(default_values, k) /\ (~Has(dest_obj, k) \/ dest_obj[k] = None)
        THEN default_values[k]
        ELSE dest_obj[k]]

\* __create_api_request_from__: event.copy(), then the defaults
create_api_request_from(defaults, ev) == inject_values(defaults, ev)

EndpointMethods ==
    {"get_global_quote", "get_intraday_quote", "get_income_statement", "get_cash_flow",
     "get_earnings", "get_company_overview", "get_crypto_intraday", "get_real_gdp",
     "get_technical_indicator"}

\* the `defaults` dict of each endpoint method
Defaults(m) ==
    CASE m = "get_global_quote" ->
            MkDict({<<"function", "GLOBAL_QUOTE">>})
      [] m = "get_intraday_quote" ->
            MkDict({<<"symbol", None>>, <<"datatype", "json">>,
                    <<"function", "TIME_SERIES_INTRADAY">>, <<"interval", "60min">>,
                    <<"slice", "year1month1">>, <<"outputsize", "compact">>})
      [] m = "get_income_statement" ->
            MkDict({<<"function", "INCOME_STATEMENT">>, <<"datatype", "json">>})
      [] m = "get_cash_flow" ->
            MkDict({<<"function", "CASH_FLOW">>, <<"datatype", "json">>})
      [] m = "get_earnings" ->
            MkDict({<<"function", "EARNINGS">>, <<"datatype", "json">>})
      [] m = "get_company_overview" ->
            MkDict({<<"function", "OVERVIEW">>})
      [] m = "get_crypto_intraday" ->
            MkDict({<<"function", "CRYPTO_INTRADAY">>, <<"interval", "5min">>,
                    <<"market", "USD">>, <<"outputsize", "compact">>})
      [] m = "get_real_gdp" ->
            MkDict({<<"function", "REAL_GDP">>, <<"interval", "annual">>,
                    <<"datatype", "json">>})
      [] m = "get_technical_indicator" ->
            MkDict({<<"function", "SMA">>, <<"interval", "monthly">>,
                    <<"datatype", "json">>})

\* the endpoint methods that open with `if event.get("datatype") == "csv": raise`
CsvGuarded ==
    {"get_income_statement", "get_cash_flow", "get_earnings", "get_company_overview"}

\* csv_not_supported with the guard of get_company_overview left out
csv_not_supported_without_overview(m, ev) ==
    m \in (CsvGuarded \ {"get_company_overview"}) /\ Get(ev, "datatype") = "csv"

csv_not_supported(m, ev) == m \in CsvGuarded /\ Get(ev, "datatype") = "csv"

\* the pydantic model each endpoint method decodes into
Variant(m) ==
    CASE m = "get_global_quote" -> "GlobalQuote"
      [] m \in {"get_intraday_quote", "get_crypto_intraday", "get_technical_indicator"} -> "Quote"
      [] m \in {"get_income_statement", "get_cash_flow", "get_earnings"} -> "AccountingReport"
      [] m = "get_company_overview" -> "CompanyOverview"
      [] m = "get_real_gdp" -> "RealGDP"
      [] OTHER -> "dict"

\* get_data_from_alpha_vantage, lines 324-331: the api key of the request.
\* [raised, event]: whether ApiKeyNotFound is raised, and the dict afterwards.
resolve_api_key(ev, key) ==
    LET checks == expect_api_key_in_event(from_customer_request(ValidationRuleChecks, ev))
    IN  IF failed(checks)
        THEN [raised |-> FALSE, event |-> [ev EXCEPT !["apikey"] = key]]
        ELSE IF key = None \/ Len(key) = 0 \/ ~Has(ev, "apikey") \/ ~Truthy(Get(ev, "apikey"))
             THEN [raised |-> TRUE, event |-> ev]
             ELSE [raised |-> FALSE, event |-> ev]

\* lines 352-355: whether the decoded object's fields are merged into requested_data
\* json_branch testing the datatype alone, not the success of the response
json_branch_without_success(checks) == passed(expect_json_datatype(checks))

json_branch(checks) == passed(expect_successful_response(expect_json_datatype(checks)))

\* lines 357-358: whether get_obj() is stored under 'csv'
csv_branch(checks) == passed(expect_successful_response(expect_csv_datatype(checks)))

RECURSIVE merge_fields(_, _)
\* for field in json_response: requested_data[field] = json_response[field]
merge_fields(data, fields) ==
    IF fields = <<>> THEN data
    ELSE merge_fields(DictSet(data, fields[1][1], fields[1][2]), Tail(fields))

\* lines 361-362
capture_symbol(data, ev) ==
    IF Has(ev, "symbol") THEN DictSet(data, "symbol", ev["symbol"]) ELSE data

\* get_data_from_alpha_vantage, lines 340-366, for the request `ev` and response r.
\* [raised, data]: "TypeError" when the loop of line 354 indexes a str by a str.
build_requested_data(ev, r) ==
    LET checks  == with_response(from_customer_request(ValidationRuleChecks, ev), r)
        success == passed(expect_successful_response(checks))
        d1 == <<<<"success", PyBool(success)>>>>
        d2 == IF ~success THEN DictSet(d1, "Error Message", get_error_message(checks)) ELSE d1
        d3 == DictSet(d2, "limit_reached", PyBool(passed(expect_limit_not_reached(checks))))
        d4 == DictSet(d3, "status_code", get_status_code(checks))
        obj == get_obj(checks)
        type_error == json_branch(checks) /\ obj.is_text /\ Len(obj.text) > 0
        d5 == IF json_branch(checks) /\ ~obj.is_text THEN merge_fields(d4, obj.fields) ELSE d4
        d6 == IF csv_branch(checks)
              THEN DictSet(d5, "csv", IF obj.is_text THEN obj.text ELSE JsonObject)
              ELSE d5
    IN  IF type_error
        THEN [raised |-> "TypeError", data |-> <<>>]
        ELSE [raised |-> "none", data |-> capture_symbol(d6, ev)]

----------------------------------------------------------------------------
(* The pydantic models (models.py) *)

\* marks a field the model class does not declare
NotAField == "<n/a>"

NoTyped ==
    [variant |-> "none", success |-> FALSE, limit_reached |-> FALSE, status_code |-> None,
     error_message |-> None, csv |-> None, symbol |-> NotAField, data |-> NotAField,
     meta_data |-> NotAField, annualReports |-> NotAField, quarterlyReports |-> NotAField,
     name |-> NotAField]

\* the value pydantic gives a field: the input under the field's alias (or name), else its default
field_value(values, key, default) ==
    IF DictHas(values, key) THEN DictGet(values, key) ELSE default

\* quote_key with the crypto prefix left out
quote_key_without_crypto(k) ==
    IF StartsWith(k, "Technical Analysis: ") \/ StartsWith(k, "Time Series (")
    THEN "data"
    ELSE k

\* Quote.normalize_fields: the key of the dict comprehension
quote_key(k) ==
    IF \/ StartsWith(k, "Technical Analysis: ")
       \/ StartsWith(k, "Time Series (")
       \/ StartsWith(k, "Time Series Crypto (")
    THEN "data"
    ELSE k

\* Quote.normalize_fields keeping the first value given to a key instead of the last
Quote_normalize_fields_first_wins(values) ==
    merge_fields(<<>>, [i \in 1..Len(values) |->
                          <<quote_key(values[Len(values) + 1 - i][1]),
                            values[Len(values) + 1 - i][2]>>])

\* Quote.normalize_fields: {quote_key(k): v for k, v in values.items()}
Quote_normalize_fields(values) ==
    merge_fields(<<>>, [i \in 1..Len(values) |-> <<quote_key(values[i][1]), values[i][2]>>])

\* AccountingReport.normalize_fields: new_field of the loop body
accounting_key(field) ==
    IF field = "annualEarnings" THEN "annualReports"
    ELSE IF field = "quarterlyEarnings" THEN "quarterlyReports"
    ELSE field

RECURSIVE accounting_loop(_, _)
\* AccountingReport.normalize_fields: the loop over the deep copy, mutating values
accounting_loop(values, new_values) ==
    IF new_values = <<>> THEN values
    ELSE LET field     == new_values[1][1]
             new_field == accounting_key(field)
             step      == IF new_field # field
                          THEN DictPop(DictSet(values, new_field, DictGet(values, field)), field)
                          ELSE values
         IN  accounting_loop(step, Tail(new_values))

AccountingReport_normalize_fields(values) == accounting_loop(values, values)

\* the pre root validator of a model class
normalize_fields(variant, values) ==
    CASE variant = "Quote" -> Quote_normalize_fields(values)
      [] variant = "AccountingReport" -> AccountingReport_normalize_fields(values)
      [] OTHER -> values

\* BaseQuote declares `symbol: str`; CompanyOverview redeclares it with a default
symbol_required(variant) == variant \in {"Quote", "GlobalQuote", "AccountingReport"}

\* whether pydantic rejects the (normalized) input of a model class
validation_error(variant, values) ==
    \/ ~DictHas(values, "success")
    \/ ~DictHas(values, "limit_reached")
    \/ ~DictHas(values, "status_code")
    \/ DictHas(values, "csv") /\ DictGet(values, "csv") = JsonObject
    \/ symbol_required(variant)
         /\ (~DictHas(values, "symbol") \/ DictGet(values, "symbol") = None)

\* the fields of the model object built from the (normalized) input
model_fields(variant, values) ==
    [variant       |-> variant,
     success       |-> DictGet(values, "success") = "True",
     limit_reached |-> DictGet(values, "limit_reached") = "True",
     status_code   |-> DictGet(values, "status_code"),
     error_message |-> field_value(values, "Error Message", None),
     csv           |-> field_value(values, "csv", None),
     symbol        |-> CASE symbol_required(variant) -> DictGet(values, "symbol")
                         [] variant = "CompanyOverview" -> field_value(values, "Symbol", None)
                         [] OTHER -> NotAField,
     data          |-> CASE variant = "Quote" -> field_value(values, "data", "{}")
                         [] variant = "GlobalQuote" -> field_value(values, "Global Quote", "{}")
                         [] variant = "RealGDP" -> field_value(values, "data", None)
                         [] OTHER -> NotAField,
     meta_data     |-> IF variant = "Quote"
                       THEN field_value(values, "Meta Data", "{}") ELSE NotAField,
     annualReports |-> IF variant = "AccountingReport"
                       THEN field_value(values, "annualReports", "[]") ELSE NotAField,
     quarterlyReports |-> IF variant = "AccountingReport"
                          THEN field_value(values, "quarterlyReports", "[]") ELSE NotAField,
     name          |-> CASE variant = "CompanyOverview" -> field_value(values, "Name", None)
                         [] variant = "RealGDP" -> field_value(values, "name", None)
                         [] OTHER -> NotAField]

\* get_most_recent_value handing back the last entry of data, not the first
most_recent_value_from_the_end(data) ==
    IF Len(data) > 0
    THEN LET quote_date == data[Len(data)][1]
             quotes     == DictSet(data[Len(data)][2], "query_date", quote_date)
         IN  [is_none |-> FALSE, value |-> quotes,
              data |-> [data EXCEPT ![Len(data)] = <<quote_date, quotes>>]]
    ELSE [is_none |-> TRUE, value |-> <<>>, data |-> data]

\* Quote.get_most_recent_value on self.data, a dict of entries that are dicts.
\* [is_none, value, data]: whether None is returned, else the entry returned, and
\* self.data afterwards (line 44 writes into the entry, which data still holds)
most_recent_value(data) ==
    IF Len(data) > 0
    THEN LET quote_date == data[1][1]
             quotes     == DictSet(data[1][2], "query_date", quote_date)
         IN  [is_none |-> FALSE, value |-> quotes,
              data |-> [data EXCEPT ![1] = <<quote_date, quotes>>]]
    ELSE [is_none |-> TRUE, value |-> <<>>, data |-> data]

\* AccountingReport.get_most_recent_annual_report / get_most_recent_quarterly_report
\* on the list they read. [is_none, value]
most_recent_report(reports) ==
    IF Len(reports) > 0
    THEN [is_none |-> FALSE, value |-> reports[1]]
    ELSE [is_none |-> TRUE, value |-> <<>>]

\* Model.parse_obj(obj): [error, normalized, value]
parse_obj(variant, obj) ==
    LET values == normalize_fields(variant, obj)
    IN  IF validation_error(variant, values)
        THEN [error |-> TRUE, normalized |-> values, value |-> NoTyped]
        ELSE [error |-> FALSE, normalized |-> values, value |-> model_fields(variant, values)]

----------------------------------------------------------------------------
(* The state machine: a caller driving one client, one call at a time *)

\* the apikey entries of the dicts callers build (Absent: none)
CallerApiKeys == {Absent, "", "ck"}

\* the parameter dicts a caller builds
CallerEvents ==
    { [EmptyDict EXCEPT !["apikey"] = a, !["datatype"] = d, !["symbol"] = sy] :
        a \in CallerApiKeys, d \in {Absent, "json", "csv"}, sy \in {Absent, "ibm"} }

\* the arguments a caller passes to with_api_key
KeyArguments == {None, "", "k1", "k2"}

Init ==
    /\ os_env \in [file : {None, "kf"}, env : {None, "ke"}]
    /\ api_key = init_api_key(os_env.file, os_env.env)
    /\ event = EmptyDict
    /\ real_gdp_default = EmptyDict
    /\ pc = "idle"
    /\ method = "none"
    /\ arg = EmptyDict
    /\ json_request = EmptyDict
    /\ url = NoUrl
    /\ sent = <<>>
    /\ response = NoResponse
    /\ requested_data = <<>>
    /\ normalized = <<>>
    /\ typed = NoTyped
    /\ exception = "none"
    /\ key_arg = NoKey
    /\ accepted = NoKey
    /\ returns = <<>>

\* the caller builds a new parameter dict
caller_builds_event ==
    /\ pc = "idle"
    /\ event' \in CallerEvents
    /\ UNCHANGED <<key_arg, accepted, returns, os_env, api_key, real_gdp_default, pc, method, arg, json_request, url,
                   sent, response, requested_data, normalized, typed, exception>>

with_api_key(key) ==
    /\ pc = "idle"
    /\ method' = "with_api_key"
    /\ key_arg' = key
    /\ IF key = None \/ Len(key) = 0
       THEN /\ exception' = "ApiKeyNotFound"
            /\ pc' = "raised"
            /\ api_key' = api_key
            /\ accepted' = accepted
       ELSE /\ exception' = "none"
            /\ pc' = "returned"
            /\ api_key' = key
            /\ accepted' = key
    /\ UNCHANGED <<returns, os_env, event, real_gdp_default, arg, json_request, url, sent, response,
                   requested_data, normalized, typed>>

\* fetch issuing the request a second time
fetch_twice(req) ==
    LET k == resolve_api_key(req, api_key)
    IN  /\ json_request' = k.event
        /\ IF k.raised
           THEN /\ exception' = "ApiKeyNotFound"
                /\ pc' = "raised"
                /\ url' = NoUrl
                /\ sent' = sent
           ELSE /\ exception' = "none"
                /\ pc' = "sent"
                /\ url' = build_url_from_args(k.event)
                /\ sent' = sent \o <<build_url_from_args(k.event), build_url_from_args(k.event)>>

\* get_data_from_alpha_vantage up to requests.get(url), on the dict object `req`:
\* ApiKeyNotFound, or the request goes out
fetch(req) ==
    LET k == resolve_api_key(req, api_key)
    IN  /\ json_request' = k.event
        /\ IF k.raised
           THEN /\ exception' = "ApiKeyNotFound"
                /\ pc' = "raised"
                /\ url' = NoUrl
                /\ sent' = sent
           ELSE /\ exception' = "none"
                /\ pc' = "sent"
                /\ url' = build_url_from_args(k.event)
                /\ sent' = Append(sent, build_url_from_args(k.event))

\* an endpoint method m called with the dict ev, up to requests.get(url)
endpoint(m, ev) ==
    /\ pc = "idle"
    /\ method' = m
    /\ arg' = ev
    /\ IF csv_not_supported(m, ev)
       THEN /\ exception' = "CsvNotSupported"
            /\ pc' = "raised"
            /\ UNCHANGED <<json_request, url, sent>>
       ELSE fetch(create_api_request_from(Defaults(m), ev))
    /\ UNCHANGED <<key_arg, accepted, returns, os_env, api_key, event, real_gdp_default, response, requested_data,
                   normalized, typed>>

get_global_quote == endpoint("get_global_quote", event)

get_intraday_quote == endpoint("get_intraday_quote", event)

get_income_statement == endpoint("get_income_statement", event)

get_cash_flow == endpoint("get_cash_flow", event)

get_earnings == endpoint("get_earnings", event)

get_company_overview == endpoint("get_company_overview", event)

get_crypto_intraday == endpoint("get_crypto_intraday", event)

get_real_gdp == \E ev \in {event, real_gdp_default} : endpoint("get_real_gdp", ev)

get_technical_indicator == endpoint("get_technical_indicator", event)

\* the caller calls get_data_from_alpha_vantage itself: the dict it works on is the caller's
get_data_from_alpha_vantage ==
    /\ pc = "idle"
    /\ method' = "get_data_from_alpha_vantage"
    /\ arg' = event
    /\ fetch(event)
    /\ event' = json_request'
    /\ UNCHANGED <<key_arg, accepted, returns, os_env, api_key, real_gdp_default, response, requested_data, normalized,
                   typed>>

\* lines 308: json_response["indicator"] = event.get("function")
with_indicator(m, data, ev) ==
    IF m = "get_technical_indicator" THEN DictSet(data, "indicator", Get(ev, "function"))
    ELSE data

\* the rest of the call once requests.get has returned r
complete(r) ==
    /\ response' = r
    /\ LET res == build_requested_data(json_request, r)
           obj == with_indicator(method, res.data, arg)
           p   == parse_obj(Variant(method), obj)
       IN  IF res.raised # "none"
           THEN /\ exception' = res.raised
                /\ pc' = "raised"
                /\ UNCHANGED <<requested_data, normalized, typed>>
           ELSE /\ requested_data' = obj
                /\ IF method = "get_data_from_alpha_vantage"
                   THEN /\ pc' = "returned"
                        /\ UNCHANGED <<normalized, typed, exception>>
                   ELSE /\ normalized' = p.normalized
                        /\ typed' = p.value
                        /\ exception' = IF p.error THEN "ValidationError" ELSE "none"
                        /\ pc' = IF p.error THEN "raised" ELSE "returned"
    /\ UNCHANGED <<key_arg, accepted, returns, os_env, api_key, event, real_gdp_default, method, arg, json_request, url,
                   sent>>

\* requests.get returns; the call runs to its end
provider_responds ==
    /\ pc = "sent"
    /\ \E r \in Responses : complete(r)

\* the call is over: its locals are gone, the caller goes on
call_ends ==
    /\ pc \in {"returned", "raised"}
    /\ pc' = "idle"
    /\ method' = "none"
    /\ arg' = EmptyDict
    /\ json_request' = EmptyDict
    /\ url' = NoUrl
    /\ sent' = <<>>
    /\ response' = NoResponse
    /\ requested_data' = <<>>
    /\ normalized' = <<>>
    /\ typed' = NoTyped
    /\ exception' = "none"
    /\ key_arg' = NoKey
    /\ UNCHANGED <<accepted, returns, os_env, api_key, event, real_gdp_default>>

Next ==
    \/ caller_builds_event
    \/ \E key \in KeyArguments : with_api_key(key)
    \/ get_global_quote
    \/ get_intraday_quote
    \/ get_income_statement
    \/ get_cash_flow
    \/ get_earnings
    \/ get_company_overview
    \/ get_crypto_intraday
    \/ get_real_gdp
    \/ get_technical_indicator
    \/ get_data_from_alpha_vantage
    \/ provider_responds
    \/ call_ends

Spec == Init /\ [][Next]_vars

----------------------------------------------------------------------------
(* The decoder alone: parse_obj of each model class on bounded dicts *)

\* top-level keys and values of the dicts handed to parse_obj
DecodeFields ==
    {"Time Series (5min)", "Time Series (Daily)", "Time Series Crypto (5min)",
     "Technical Analysis: SMA",
     "Global Quote", "annualEarnings", "quarterlyEarnings", "annualReports", "data",
     "Meta Data"} \X {"v1", "v2"}

\* what get_data_from_alpha_vantage puts in front of and behind the provider's fields
DecodeInputs ==
    { << <<"success", "True">>, <<"limit_reached", "False">>, <<"status_code", "200">> >>
        \o f \o sym :
        f \in OrderedDicts(DecodeFields, MaxKeys),
        sym \in { <<>>, << <<"symbol", "ibm">> >> } }

InitDecode ==
    /\ os_env = [file |-> None, env |-> None]
    /\ api_key = init_api_key(os_env.file, os_env.env)
    /\ event = EmptyDict
    /\ real_gdp_default = EmptyDict
    /\ pc = "idle"
    /\ method = "none"
    /\ arg = EmptyDict
    /\ json_request = EmptyDict
    /\ url = NoUrl
    /\ sent = <<>>
    /\ response = NoResponse
    /\ requested_data = <<>>
    /\ normalized = <<>>
    /\ typed = NoTyped
    /\ exception = "none"
    /\ key_arg = NoKey
    /\ accepted = NoKey
    /\ returns = <<>>

\* Model.parse_obj(obj) called on its own
decode(variant, obj) ==
    /\ method' = variant
    /\ requested_data' = obj
    /\ LET p == parse_obj(variant, obj)
       IN  /\ normalized' = p.normalized
           /\ typed' = p.value
           /\ exception' = IF p.error THEN "ValidationError" ELSE "none"
           /\ pc' = IF p.error THEN "raised" ELSE "returned"
    /\ UNCHANGED <<key_arg, accepted, returns, os_env, api_key, event, real_gdp_default, arg, json_request, url, sent,
                   response>>

Quote_parse_obj == pc = "idle" /\ \E obj \in DecodeInputs : decode("Quote", obj)

GlobalQuote_parse_obj == pc = "idle" /\ \E obj \in DecodeInputs : decode("GlobalQuote", obj)

AccountingReport_parse_obj == pc = "idle" /\ \E obj \in DecodeInputs : decode("AccountingReport", obj)

CompanyOverview_parse_obj == pc = "idle" /\ \E obj \in DecodeInputs : decode("CompanyOverview", obj)

RealGDP_parse_obj == pc = "idle" /\ \E obj \in DecodeInputs : decode("RealGDP", obj)

NextDecode ==
    \/ Quote_parse_obj
    \/ GlobalQuote_parse_obj
    \/ AccountingReport_parse_obj
    \/ CompanyOverview_parse_obj
    \/ RealGDP_parse_obj
    \/ call_ends

SpecDecode == InitDecode /\ [][NextDecode]_vars

----------------------------------------------------------------------------
(* The accessors alone: decoded Quote and AccountingReport objects whose data and
   report lists have their structure *)

\* the keys of data: the dates of a series
QuoteDates == {"2024-01-03", "2024-01-02", "2024-01-01"}

\* the fields an entry of data may carry; an entry may already hold a query_date
EntryFields == {<<"4. close", "v1">>, <<"4. close", "v2">>, <<"query_date", "2000-01-01">>}

\* self.data of a Quote: dates to entries, in the order of the payload
QuoteData == OrderedDicts(QuoteDates \X OrderedDicts(EntryFields, MaxKeys), MaxEntries)

\* the reports of an AccountingReport
Reports == { << <<"fiscalDateEnding", d>> >> : d \in {"2023-12-31", "2022-12-31", "2021-12-31"} }

RECURSIVE Lists(_, _)
\* every list of at most n elements of the set `elems`
Lists(elems, n) ==
    IF n = 0 THEN { <<>> }
    ELSE LET shorter == Lists(elems, n - 1)
         IN  shorter \cup { Append(l, e) : <<l, e>> \in
                               { x \in shorter \X elems : Len(x[1]) = n - 1 } }

\* the decoded Quote objects get_most_recent_value is called on
QuoteObjects ==
    { [NoTyped EXCEPT !.variant = "Quote", !.success = TRUE, !.status_code = "200",
                      !.symbol = "ibm", !.data = d, !.meta_data = "{}"] : d \in QuoteData }

\* the decoded AccountingReport objects the report accessors are called on
AccountingReportObjects ==
    { [NoTyped EXCEPT !.variant = "AccountingReport", !.success = TRUE,
                      !.status_code = "200", !.symbol = "ibm",
                      !.annualReports = a, !.quarterlyReports = q] :
        a \in Lists(Reports, MaxEntries), q \in Lists(Reports, MaxEntries) }

InitAccessor ==
    /\ os_env = [file |-> None, env |-> None]
    /\ api_key = init_api_key(os_env.file, os_env.env)
    /\ event = EmptyDict
    /\ real_gdp_default = EmptyDict
    /\ pc = "idle"
    /\ method = "none"
    /\ arg = EmptyDict
    /\ json_request = EmptyDict
    /\ url = NoUrl
    /\ sent = <<>>
    /\ response = NoResponse
    /\ requested_data = <<>>
    /\ normalized = <<>>
    /\ \/ typed \in QuoteObjects
       \/ typed \in AccountingReportObjects
    /\ exception = "none"
    /\ key_arg = NoKey
    /\ accepted = NoKey
    /\ returns = <<>>

\* an accessor has returned: the caller has its return value
accessor_returns(name, r) ==
    /\ method' = name
    /\ returns' = Append(returns, [accessor |-> name, is_none |-> r.is_none, value |-> r.value])
    /\ UNCHANGED <<key_arg, accepted, os_env, api_key, event, real_gdp_default, pc, arg,
                   json_request, url, sent, response, requested_data, normalized, exception>>

get_most_recent_value ==
    /\ typed.variant = "Quote"
    /\ Len(returns) < MaxCalls
    /\ typed' = [typed EXCEPT !.data = most_recent_value(typed.data).data]
    /\ accessor_returns("get_most_recent_value", most_recent_value(typed.data))

get_most_recent_annual_report ==
    /\ typed.variant = "AccountingReport"
    /\ Len(returns) < MaxCalls
    /\ typed' = typed
    /\ accessor_returns("get_most_recent_annual_report", most_recent_report(typed.annualReports))

get_most_recent_quarterly_report ==
    /\ typed.variant = "AccountingReport"
    /\ Len(returns) < MaxCalls
    /\ typed' = typed
    /\ accessor_returns("get_most_recent_quarterly_report",
                        most_recent_report(typed.quarterlyReports))

NextAccessor ==
    \/ get_most_recent_value
    \/ get_most_recent_annual_report
    \/ get_most_recent_quarterly_report

SpecAccessor == InitAccessor /\ [][NextAccessor]_vars

----------------------------------------------------------------------------
(* Properties *)

FetchMethods == EndpointMethods \cup {"get_data_from_alpha_vantage"}

\* a call of a method that talks to the provider is under way or has just ended
InCall == pc # "idle" /\ method \in FetchMethods

\* the call got past the csv guard of its endpoint method
PastCsvGuard == InCall /\ exception # "CsvNotSupported"

\* C1: a call whose parameters have no non-empty apikey, on a client whose stored key
\* is empty, raises ApiKeyNotFound before the url is built and before any request;
\* no request with an empty apikey is ever sent.
C1_NoKeyRaises ==
    /\ (PastCsvGuard /\ ~Truthy(Get(arg, "apikey")) /\ api_key = "")
         => (exception = "ApiKeyNotFound" /\ url = NoUrl /\ sent = <<>>)
    /\ \A i \in 1..Len(sent) : sent[i].query["apikey"] # ""

\* C2: a call whose parameters carry a non-empty apikey raises no ApiKeyNotFound and
\* sends the request with exactly that apikey, whatever key the client holds.
C2_CallerKeySent ==
    (PastCsvGuard /\ Truthy(Get(arg, "apikey")))
        => /\ exception # "ApiKeyNotFound"
           /\ Len(sent) = 1
           /\ sent[1].query["apikey"] = arg["apikey"]

\* C3: get_income_statement, get_cash_flow, get_earnings and get_company_overview called
\* with datatype "csv" raise CsvNotSupported before the api key is looked at, before
\* the url is built and before any request: the call sends nothing.
C3_CsvRaisesFirst ==
    (InCall /\ method \in CsvGuarded /\ Get(arg, "datatype") = "csv")
        => /\ pc = "raised"
           /\ exception = "CsvNotSupported"
           /\ json_request = EmptyDict
           /\ url = NoUrl
           /\ sent = <<>>
           /\ response = NoResponse

\* C3 witness: the csv guard fired in a state whose api key check would have raised
C3_Witness ==
    /\ pc = "raised"
    /\ exception = "CsvNotSupported"
    /\ method = "get_company_overview"
    /\ api_key = ""
    /\ Truthy(Get(arg, "apikey"))

\* the response carries the provider's rate-limit Note
ResponseHasLimitNote ==
    /\ response.kind = "json"
    /\ \E i \in 1..Len(response.fields) : response.fields[i] = <<"Note", LimitNote>>

\* C4: limit_reached of the result is true exactly when the response carries the
\* rate-limit Note.
C4_LimitFlag ==
    (pc = "returned" /\ method \in FetchMethods)
        => /\ (DictGet(requested_data, "limit_reached") = "True") <=> ResponseHasLimitNote
           /\ typed.variant # "none" => (typed.limit_reached <=> ResponseHasLimitNote)

\* the keys get_data_from_alpha_vantage and the endpoint methods set themselves
OwnKeys == {"success", "Error Message", "limit_reached", "status_code", "symbol", "indicator"}

\* C5: a result with success false carries an error message and no provider field
\* (its variant fields are at their defaults); an error message only comes with
\* success false.
C5_FailureCarriesOnlyError ==
    (method \in FetchMethods /\ requested_data # <<>>)
        => /\ DictGet(requested_data, "success") = "False"
                => /\ DictHas(requested_data, "Error Message")
                   /\ Truthy(DictGet(requested_data, "Error Message"))
                   /\ DictKeys(requested_data) \subseteq OwnKeys
           /\ DictHas(requested_data, "Error Message")
                => DictGet(requested_data, "success") = "False"
           /\ (typed.variant # "none" /\ ~typed.success)
                => /\ Truthy(typed.error_message)
                   /\ typed.csv = None
                   /\ typed.data \in {"{}", None, NotAField}
                   /\ typed.meta_data \in {"{}", NotAField}
                   /\ typed.annualReports \in {"[]", NotAField}
                   /\ typed.quarterlyReports \in {"[]", NotAField}
                   /\ typed.name \in {None, NotAField}
                   /\ typed.variant = "CompanyOverview" => typed.symbol = None
           /\ (typed.variant # "none" /\ typed.error_message # None) => ~typed.success

\* C5 witness: a failed call whose response did carry provider fields
C5_Witness ==
    /\ pc = "returned"
    /\ typed.variant = "CompanyOverview"
    /\ ~typed.success
    /\ DictHas(response.fields, "Symbol")

\* C6: the request of an endpoint method carries datatype "json" when the caller gave
\* no datatype, and the caller's datatype when they gave one.
C6_DatatypeDefault ==
    (pc = "sent" /\ method \in EndpointMethods)
        => /\ ~Has(arg, "datatype") => Get(json_request, "datatype") = "json"
           /\ Has(arg, "datatype") => json_request["datatype"] = arg["datatype"]

\* C7: the result carries a symbol exactly when the caller's parameters had one, and
\* it is the caller's.
C7_SymbolIsCallers ==
    (pc = "returned" /\ method \in FetchMethods)
        => /\ DictHas(requested_data, "symbol") <=> Has(arg, "symbol")
           /\ DictHas(requested_data, "symbol")
                => DictGet(requested_data, "symbol") = arg["symbol"]
           /\ (typed.variant # "none" /\ typed.symbol # NotAField)
                => typed.symbol = Get(arg, "symbol")

\* the canonical key the class `variant` gives a top-level key k, by the rules of the
\* normalization table
CanonicalKey(variant, k) ==
    CASE variant = "Quote"
           /\ \E prefix \in {"Time Series (", "Time Series Crypto (", "Technical Analysis: "} :
                StartsWith(k, prefix) -> "data"
      [] variant = "AccountingReport" /\ k = "annualEarnings" -> "annualReports"
      [] variant = "AccountingReport" /\ k = "quarterlyEarnings" -> "quarterlyReports"
      [] OTHER -> k

\* key i of requested_data is the only one of its dict with its canonical key
OnlyKeyOfItsCanonical(variant, i) ==
    \A j \in 1..Len(requested_data) :
        j # i => CanonicalKey(variant, requested_data[j][1])
                    # CanonicalKey(variant, requested_data[i][1])

\* the value of key i of requested_data sits under its canonical key, a rewritten key is gone
KeptUnderCanonical(variant, i) ==
    LET k == requested_data[i][1]
        c == CanonicalKey(variant, k)
    IN  /\ DictHas(normalized, c)
        /\ DictGet(normalized, c) = requested_data[i][2]
        /\ c # k => ~DictHas(normalized, k)

\* a normalizer (Quote, AccountingReport) or the alias of GlobalQuote has run on requested_data
Normalized == pc # "idle" /\ method \in {"Quote", "AccountingReport", "GlobalQuote"}

\* GlobalQuote takes data from "Global Quote"
GlobalQuoteAlias ==
    (pc = "returned" /\ method = "GlobalQuote" /\ DictHas(requested_data, "Global Quote"))
        => typed.data = DictGet(requested_data, "Global Quote")

\* C8 as stated: every top-level key matching a rule has its value under the canonical
\* key and is gone under the raw key; every other key is kept with its value.
C8_EveryKeyNormalized ==
    /\ Normalized => \A i \in 1..Len(requested_data) : KeptUnderCanonical(method, i)
    /\ GlobalQuoteAlias

\* C8 amended: the same, for every key that is the only one of the dict with its
\* canonical key; a rewritten raw key is gone in any case.
C8_LoneKeyNormalized ==
    /\ Normalized
         => \A i \in 1..Len(requested_data) :
              /\ OnlyKeyOfItsCanonical(method, i) => KeptUnderCanonical(method, i)
              /\ CanonicalKey(method, requested_data[i][1]) # requested_data[i][1]
                   => ~DictHas(normalized, requested_data[i][1])
    /\ GlobalQuoteAlias

\* C8 witness: a crypto series rewritten to data next to a key that is kept
C8_Witness ==
    /\ pc = "returned"
    /\ method = "Quote"
    /\ DictHas(requested_data, "Time Series Crypto (5min)")
    /\ DictHas(requested_data, "Meta Data")
    /\ typed.data = DictGet(requested_data, "Time Series Crypto (5min)")
    /\ typed.meta_data = DictGet(requested_data, "Meta Data")
    /\ ~DictHas(normalized, "Time Series Crypto (5min)")

\* C9: decoding a result whose optional fields are missing does not fail and gives
\* those fields their defaults.
C9_DecodeNeverFails ==
    (method \in EndpointMethods /\ requested_data # <<>> /\ ~DictHas(requested_data, "csv"))
        => /\ exception # "ValidationError"
           /\ pc = "returned"
           /\ typed.csv = None
           /\ ~DictHas(requested_data, "Error Message") => typed.error_message = None
           /\ (~DictHas(requested_data, "symbol") /\ typed.symbol # NotAField)
                => typed.symbol = None

\* C10: a call sends one request when it returns a result, none when it raises
\* ApiKeyNotFound or CsvNotSupported, never more than one, and decodes after the request.
C10_OneRequestPerCall ==
    /\ Len(sent) <= 1
    /\ (pc = "returned" /\ method \in FetchMethods) => Len(sent) = 1
    /\ exception \in {"ApiKeyNotFound", "CsvNotSupported"} => sent = <<>>
    /\ (method \in FetchMethods /\ (requested_data # <<>> \/ typed # NoTyped))
         => (Len(sent) = 1 /\ response # NoResponse)
    /\ pc = "sent" => (Len(sent) = 1 /\ requested_data = <<>> /\ typed = NoTyped)

\* C10 witness: an endpoint call that sent its one request and returned a decoded result
C10_Witness ==
    /\ pc = "returned"
    /\ method \in EndpointMethods
    /\ Len(sent) = 1
    /\ typed.variant # "none"

\* the positions of requested_data whose key the class `variant` maps to canonical key c
PositionsOf(variant, c) ==
    { i \in 1..Len(requested_data) : CanonicalKey(variant, requested_data[i][1]) = c }

\* the canonical keys that at least two keys of requested_data map to
CollidingKeys(variant) ==
    { c \in { CanonicalKey(variant, requested_data[i][1]) : i \in 1..Len(requested_data) } :
        Cardinality(PositionsOf(variant, c)) >= 2 }

\* the value of the last key of requested_data, in iteration order, that maps to c
LaterValue(variant, c) ==
    LET last == CHOOSE i \in PositionsOf(variant, c) :
                    \A j \in PositionsOf(variant, c) : j <= i
    IN  requested_data[last][2]

\* a normalizer of its own (Quote, AccountingReport) has run on requested_data
NormalizerRan == pc # "idle" /\ method \in {"Quote", "AccountingReport"}

\* C11 as stated: when two top-level keys map to the same canonical key, the normalized
\* result holds under it the value of the later one in iteration order, for the Quote
\* normalizer and for the AccountingReport normalizer.
C11_LaterKeyWins ==
    NormalizerRan
        => \A c \in CollidingKeys(method) :
             DictHas(normalized, c) /\ DictGet(normalized, c) = LaterValue(method, c)

\* C11 amended: the Quote normalizer keeps the value of the later key; the
\* AccountingReport normalizer keeps the value of the rewritten key (annualEarnings,
\* quarterlyEarnings), whether it comes before or after the canonical key itself.
C11_LaterOrRewrittenKeyWins ==
    /\ (pc # "idle" /\ method = "Quote")
         => \A c \in CollidingKeys("Quote") :
              DictHas(normalized, c) /\ DictGet(normalized, c) = LaterValue("Quote", c)
    /\ (pc # "idle" /\ method = "AccountingReport")
         => \A c \in CollidingKeys("AccountingReport") :
              \A i \in PositionsOf("AccountingReport", c) :
                 requested_data[i][1] # c
                    => DictHas(normalized, c) /\ DictGet(normalized, c) = requested_data[i][2]

\* C11 witness: annualEarnings ahead of annualReports with another value; the result
\* holds the earnings value under annualReports
C11_Witness ==
    /\ pc # "idle"
    /\ method = "AccountingReport"
    /\ Len(requested_data) >= 2
    /\ \E i, j \in 1..Len(requested_data) :
          /\ i < j
          /\ requested_data[i][1] = "annualEarnings"
          /\ requested_data[j][1] = "annualReports"
          /\ requested_data[i][2] # requested_data[j][2]
          /\ DictGet(normalized, "annualReports") = requested_data[i][2]

\* get_data_from_alpha_vantage has built its result from a response it counts a success
SuccessfulResult ==
    /\ InCall
    /\ response # NoResponse
    /\ requested_data # <<>>
    /\ DictGet(requested_data, "success") = "True"

\* the result holds a field of the decoded JSON object of the response
FieldsMerged ==
    \E i \in 1..Len(response.fields) :
        /\ response.fields[i][1] # "symbol"
        /\ DictHas(requested_data, response.fields[i][1])
        /\ DictGet(requested_data, response.fields[i][1]) = response.fields[i][2]

\* C12: for a successful response the fields of the decoded JSON object are merged into
\* the result only when the request's datatype is "json", something is stored under
\* `csv` only when the datatype is "csv" and then it is the raw text, and the two
\* branches never both run for the same call.
C12_BranchGatedByDatatype ==
    SuccessfulResult
        => /\ FieldsMerged => Get(json_request, "datatype") = "json"
           /\ DictHas(requested_data, "csv")
                => /\ Get(json_request, "datatype") = "csv"
                   /\ DictGet(requested_data, "csv") = response.text
           /\ ~(FieldsMerged /\ DictHas(requested_data, "csv"))

\* the dict the caller passed to the call under way is as it was when the call began
CallerMappingUnchanged ==
    InCall => \/ event = arg
              \/ method = "get_real_gdp" /\ arg = real_gdp_default

\* a request carries the apikey its caller built into the parameters or, without one,
\* the key the client stores now
NoLeftoverKeySent ==
    \A i \in 1..Len(sent) :
        \/ sent[i].query["apikey"] = api_key
        \/ /\ sent[i].query["apikey"] \in CallerApiKeys
           /\ Truthy(sent[i].query["apikey"])

\* C14: no call changes what a later call can observe: the parameter mapping passed to
\* a call is unchanged by it, the default argument of get_real_gdp stays empty, and a
\* call repeated with the same mapping after with_api_key(k) sends k, not a key left
\* over from an earlier call.
C14_NoObservableChange ==
    /\ CallerMappingUnchanged
    /\ real_gdp_default = EmptyDict
    /\ NoLeftoverKeySent

\* the key a new client resolves: config file before environment variable before empty
KeyAtConstruction ==
    CASE os_env.file # None -> os_env.file
      [] os_env.file = None /\ os_env.env # None -> os_env.env
      [] OTHER -> ""

\* the stored key is the argument of the last with_api_key that did not raise, or the
\* key of construction
StoredKeyIsLastAccepted ==
    api_key = IF accepted = NoKey THEN KeyAtConstruction ELSE accepted

\* with_api_key(None) and with_api_key("") have raised ApiKeyNotFound, any other
\* argument has not
EmptyKeyRaises ==
    (pc # "idle" /\ method = "with_api_key")
        => IF key_arg \in {None, ""}
           THEN pc = "raised" /\ exception = "ApiKeyNotFound"
           ELSE pc = "returned" /\ exception = "none"

\* one step of the client: with_api_key stores its argument unless it raises, and no
\* other step touches the stored key
StoredKeyStep ==
    /\ api_key' = IF pc = "idle" /\ method' = "with_api_key" /\ key_arg' \notin {None, ""}
                  THEN key_arg'
                  ELSE api_key
    /\ accepted' = IF pc = "idle" /\ method' = "with_api_key" /\ key_arg' \notin {None, ""}
                   THEN key_arg'
                   ELSE accepted

\* a request whose parameters lacked an apikey went out with the stored key
RequestCarriesStoredKey ==
    (InCall /\ pc = "sent" /\ ~Truthy(Get(arg, "apikey")))
        => Len(sent) = 1 /\ sent[1].query["apikey"] = api_key

\* C15: after any sequence of with_api_key calls the stored key is the argument of the
\* most recent call that did not raise, or the key resolved at construction (config
\* file, then environment variable, then empty) if none succeeded; with_api_key(None)
\* and with_api_key("") raise ApiKeyNotFound and leave the stored key unchanged; every
\* later request lacking apikey is sent with the stored key.
C15_StoredKeyIsLastAccepted ==
    /\ [](StoredKeyIsLastAccepted /\ EmptyKeyRaises /\ RequestCarriesStoredKey)
    /\ [][StoredKeyStep]_vars

\* C15 witness: a client built with a config file key, given another key by
\* with_api_key, has sent a request lacking an apikey with the newer key
C15_Witness ==
    /\ os_env.file # None
    /\ accepted \in {"k1", "k2"}
    /\ api_key = accepted
    /\ InCall
    /\ pc = "sent"
    /\ ~Truthy(Get(arg, "apikey"))
    /\ sent[1].query["apikey"] = accepted

\* entry `got` is entry `was` with query_date set to `date`: every other key as before
WithQueryDate(got, was, date) ==
    /\ DictHas(got, "query_date")
    /\ DictGet(got, "query_date") = date
    /\ DictKeys(got) = DictKeys(was) \cup {"query_date"}
    /\ \A k \in DictKeys(was) \ {"query_date"} : DictGet(got, k) = DictGet(was, k)

\* what the accessor that has just returned gave back, read against the object it was
\* called on
AccessorStep ==
    LET r == returns'[Len(returns')]
    IN  (Len(returns') = Len(returns) + 1)
          => CASE r.accessor = "get_most_recent_value" ->
                    IF Len(typed.data) = 0
                    THEN r.is_none /\ typed' = typed
                    ELSE /\ ~r.is_none
                         /\ WithQueryDate(r.value, typed.data[1][2], typed.data[1][1])
                         /\ Len(typed'.data) = Len(typed.data)
                         /\ typed'.data[1][1] = typed.data[1][1]
                         /\ \A i \in 2..Len(typed.data) : typed'.data[i] = typed.data[i]
               [] r.accessor = "get_most_recent_annual_report" ->
                    /\ typed' = typed
                    /\ IF Len(typed.annualReports) = 0
                       THEN r.is_none
                       ELSE ~r.is_none /\ r.value = typed.annualReports[1]
               [] r.accessor = "get_most_recent_quarterly_report" ->
                    /\ typed' = typed
                    /\ IF Len(typed.quarterlyReports) = 0
                       THEN r.is_none
                       ELSE ~r.is_none /\ r.value = typed.quarterlyReports[1]

\* two calls of the same accessor on an object returned the same value
SameValueTwice ==
    \A i, j \in 1..Len(returns) :
        returns[i].accessor = returns[j].accessor => returns[i] = returns[j]

\* C13: get_most_recent_value returns null when data is empty and otherwise the first
\* entry of data with query_date equal to that entry's own key, leaving every other
\* entry unchanged; get_most_recent_annual_report and get_most_recent_quarterly_report
\* return null when their list is empty and otherwise its first element; an accessor
\* called twice returns the same value; none of them raises.
C13_AccessorsReturnFirst ==
    /\ [](SameValueTwice /\ exception = "none")
    /\ [][AccessorStep]_vars

\* C13 witness: get_most_recent_value called twice on an object of two entries; the
\* value returned is the first entry with its own date, the second entry has none
C13_Witness ==
    /\ typed.variant = "Quote"
    /\ Len(typed.data) = 2
    /\ Len(returns) = 2
    /\ ~returns[2].is_none
    /\ DictGet(returns[2].value, "query_date") = typed.data[1][1]
    /\ DictHas(returns[2].value, "4. close")
    /\ ~DictHas(typed.data[2][2], "query_date")

====
